---- MODULE Spec2Model ----
(***************************************************************************)
(* A model of the Halftime repository: the two scripts NFL_EPA.py (sheet   *)
(* rows -> game ids -> gated EPA/play report rows) and NFL-epa.py (play    *)
(* source fallback -> per-team EPA by half).                               *)
(*                                                                         *)
(* Representation of Python values:                                        *)
(*   text            a sequence of one-character strings                   *)
(*   None / NaN / NA the empty sequence <<>> (NA) for optional numbers,    *)
(*                   the string "<None>" (NoneStr) for optional names      *)
(*   float EPA mean  <<sum, plays>>, the exact quotient sum/plays          *)
(*   percentile      <<num, den>>, the exact quotient num/den              *)
(*   output cell     <<>> for "", <<v>> for f"{val:.3f}" (v thousandths),  *)
(*                   <<v, p>> for f"{val:.3f} ({p}%)"                      *)
(***************************************************************************)
EXTENDS Integers, Sequences, FiniteSets, TLC

VARIABLES
    script,      \* which script runs: "NFL_EPA", "NFL-epa" ("none": a function harness)
    pc,          \* position in the script
    env,         \* the process environment (os.environ) and the files beside the script
    effects,     \* external operations performed so far, in order
    values,      \* NFL_EPA.py: ws.get_all_values()
    targets,     \* NFL_EPA.py: targets
    schedule,    \* NFL_EPA.py: schedule
    pbp,         \* pbp (both scripts)
    gids,        \* NFL_EPA.py: gid of each iteration of the rows loop
    records,     \* NFL_EPA.py: records
    pct_matrix,  \* NFL_EPA.py: pct_matrix
    frames,      \* NFL-epa.py: frames
    calls,       \* NFL-epa.py: play source calls made, with their results
    epa_stats,   \* NFL-epa.py: epa_stats
    sheet_out,   \* what ws.update wrote
    fin,         \* function harness: the input
    fout         \* function harness: the output

pipe == <<script, pc, env, effects, values, targets, schedule, pbp, gids,
          records, pct_matrix, frames, calls, epa_stats, sheet_out>>
vars == <<script, pc, env, effects, values, targets, schedule, pbp, gids,
          records, pct_matrix, frames, calls, epa_stats, sheet_out, fin, fout>>

NA == <<>>
NoneStr == "<None>"

Range(s) == {s[k] : k \in DOMAIN s}

\* ---------------------------------------------------------------- text

UpperSeq == <<"A","B","C","D","E","F","G","H","I","J","K","L","M",
              "N","O","P","Q","R","S","T","U","V","W","X","Y","Z">>
LowerSeq == <<"a","b","c","d","e","f","g","h","i","j","k","l","m",
              "n","o","p","q","r","s","t","u","v","w","x","y","z">>
DigitSeq == <<"0","1","2","3","4","5","6","7","8","9">>

\* str.lower() on one character
Lower(c) ==
    IF \E k \in DOMAIN UpperSeq : UpperSeq[k] = c
    THEN LowerSeq[CHOOSE k \in DOMAIN UpperSeq : UpperSeq[k] = c]
    ELSE c

\* the character class [a-z]
IsLowerAlpha(c) == c \in Range(LowerSeq)

\* the character class \s
IsSpace(c) == c \in {" ", "\t"}

\* the character class \d
IsDigit(c) == c \in Range(DigitSeq)

DigitVal(c) == (CHOOSE k \in DOMAIN DigitSeq : DigitSeq[k] = c) - 1

\* re.sub(r"[^a-z]", "", str(name).lower()), as a string
RECURSIVE NormKey(_)
NormKey(name) ==
    IF name = <<>> THEN ""
    ELSE LET c == Lower(Head(name))
         IN  (IF IsLowerAlpha(c) THEN c ELSE "") \o NormKey(Tail(name))

\* the index after the maximal run of \s that starts at i
SpaceRunEnd(s, i) ==
    CHOOSE j \in i..(Len(s) + 1) :
        /\ \A k \in i..(j - 1) : IsSpace(s[k])
        /\ (j = Len(s) + 1 \/ ~IsSpace(s[j]))

\* str.strip()
strip(s) ==
    IF \A k \in DOMAIN s : IsSpace(s[k]) THEN <<>>
    ELSE LET lo == CHOOSE k \in DOMAIN s :
                       ~IsSpace(s[k]) /\ \A m \in 1..(k - 1) : IsSpace(s[m])
             hi == CHOOSE k \in DOMAIN s :
                       ~IsSpace(s[k]) /\ \A m \in (k + 1)..Len(s) : IsSpace(s[m])
         IN  SubSeq(s, lo, hi)

\* ---------------------------------------------------------------- teams

TEAM_ABBR ==
    ("bills" :> "BUF") @@ ("dolphins" :> "MIA") @@ ("patriots" :> "NE") @@
    ("jets" :> "NYJ") @@ ("ravens" :> "BAL") @@ ("bengals" :> "CIN") @@
    ("browns" :> "CLE") @@ ("steelers" :> "PIT") @@ ("texans" :> "HOU") @@
    ("colts" :> "IND") @@ ("jaguars" :> "JAX") @@ ("titans" :> "TEN") @@
    ("broncos" :> "DEN") @@ ("chiefs" :> "KC") @@ ("raiders" :> "LV") @@
    ("chargers" :> "LAC") @@ ("cowboys" :> "DAL") @@ ("giants" :> "NYG") @@
    ("eagles" :> "PHI") @@ ("commanders" :> "WAS") @@ ("bears" :> "CHI") @@
    ("lions" :> "DET") @@ ("packers" :> "GB") @@ ("vikings" :> "MIN") @@
    ("falcons" :> "ATL") @@ ("panthers" :> "CAR") @@ ("saints" :> "NO") @@
    ("buccaneers" :> "TB") @@ ("cardinals" :> "ARI") @@ ("rams" :> "LA") @@
    ("49ers" :> "SF") @@ ("seahawks" :> "SEA")

CITY_VARIANTS ==
    ("washington" :> "WAS") @@ ("footballteam" :> "WAS") @@ ("commanders" :> "WAS") @@
    ("newyorkgiants" :> "NYG") @@ ("giants" :> "NYG") @@
    ("newyorkjets" :> "NYJ") @@ ("jets" :> "NYJ") @@
    ("losangeleschargers" :> "LAC") @@ ("chargers" :> "LAC") @@
    ("sandiegochargers" :> "LAC") @@
    ("losangelesrams" :> "LA") @@ ("rams" :> "LA") @@ ("stlouisrams" :> "LA") @@
    ("lasvegasraiders" :> "LV") @@ ("oaklandraiders" :> "LV") @@ ("raiders" :> "LV") @@
    ("tampabaybuccaneers" :> "TB") @@ ("buccaneers" :> "TB") @@ ("bucs" :> "TB") @@
    ("sanfrancisco49ers" :> "SF") @@ ("49ers" :> "SF") @@ ("niners" :> "SF") @@
    ("jacksonvillejaguars" :> "JAX") @@ ("jaguars" :> "JAX") @@ ("jags" :> "JAX") @@
    ("kansascitychiefs" :> "KC") @@ ("chiefs" :> "KC")

to_abbr(name) ==
    LET key == NormKey(name)
    IN  IF key \in DOMAIN CITY_VARIANTS THEN CITY_VARIANTS[key]
        ELSE IF key \in DOMAIN TEAM_ABBR THEN TEAM_ABBR[key]
        ELSE ""

\* One match of r"\s+@\s+|\s+at\s+" (re.I) starting at i: the index after the
\* match, or 0 when the pattern does not match at i.
SepEnd(s, i) ==
    IF i > Len(s) \/ ~IsSpace(s[i]) THEN 0
    ELSE LET j == SpaceRunEnd(s, i)
         IN  IF j + 1 <= Len(s) /\ s[j] = "@" /\ IsSpace(s[j + 1])
                 THEN SpaceRunEnd(s, j + 1)
             ELSE IF j + 2 <= Len(s) /\ Lower(s[j]) = "a" /\ Lower(s[j + 1]) = "t"
                     /\ IsSpace(s[j + 2])
                 THEN SpaceRunEnd(s, j + 2)
             ELSE 0

\* re.split(r"\s+@\s+|\s+at\s+", s, flags=re.I)
RECURSIVE re_split(_)
re_split(s) ==
    IF \E i \in DOMAIN s : SepEnd(s, i) # 0
    THEN LET i == CHOOSE k \in DOMAIN s :
                      SepEnd(s, k) # 0 /\ \A m \in 1..(k - 1) : SepEnd(s, m) = 0
         IN  <<SubSeq(s, 1, i - 1)>> \o re_split(SubSeq(s, SepEnd(s, i), Len(s)))
    ELSE <<s>>

\* parse_matchup: <<away, home>>
parse_matchup(s) ==
    LET parts == re_split(s)
    IN  IF Len(parts) # 2 THEN <<NoneStr, NoneStr>>
        ELSE <<to_abbr(strip(parts[1])), to_abbr(strip(parts[2]))>>

\* int(m.group(1)) for the digits d
RECURSIVE DigitsToInt(_)
DigitsToInt(d) ==
    IF d = <<>> THEN 0
    ELSE 10 * DigitsToInt(SubSeq(d, 1, Len(d) - 1)) + DigitVal(d[Len(d)])

\* parse_week: NA or <<week>>
parse_week(s) ==
    IF s = <<>> \/ ~\E k \in DOMAIN s : IsDigit(s[k]) THEN NA
    ELSE LET lo == CHOOSE k \in DOMAIN s :
                       IsDigit(s[k]) /\ \A m \in 1..(k - 1) : ~IsDigit(s[m])
             hi == CHOOSE k \in lo..Len(s) :
                       /\ \A m \in lo..k : IsDigit(s[m])
                       /\ (k = Len(s) \/ ~IsDigit(s[k + 1]))
         IN  <<DigitsToInt(SubSeq(s, lo, hi))>>

\* ---------------------------------------------------------------- idle parts

PipeIdle ==
    /\ script = "none" /\ pc = "idle" /\ env = <<>> /\ effects = <<>>
    /\ values = <<>> /\ targets = <<>> /\ schedule = <<>> /\ pbp = {}
    /\ gids = <<>> /\ records = <<>> /\ pct_matrix = <<>> /\ frames = <<>>
    /\ calls = <<>> /\ epa_stats = <<>> /\ sheet_out = <<>>

\* ---------------------------------------------------------------- parse_matchup harness

W(a, b) == a \o <<" ">> \o b

Washington == <<"W","a","s","h","i","n","g","t","o","n">>
Football   == <<"F","o","o","t","b","a","l","l">>
Team       == <<"T","e","a","m">>
Dallas     == <<"D","a","l","l","a","s">>
Cowboys    == <<"C","o","w","b","o","y","s">>
Commanders == <<"C","o","m","m","a","n","d","e","r","s">>
Eagles     == <<"E","a","g","l","e","s">>
Giants     == <<"G","i","a","n","t","s">>
Niners     == <<"4","9","e","r","s">>
NYGiants   == <<"N",".","Y","."," ","G","i","a","n","t","s">>
Falcons    == <<"F","a","l","c","o","n","s">>

WashingtonFootballTeam == W(W(Washington, Football), Team)
DallasCowboys == W(Dallas, Cowboys)

NamePool ==
    {WashingtonFootballTeam, DallasCowboys, Washington, W(Football, Team),
     Cowboys, Commanders, Eagles, Giants, Niners, NYGiants, Falcons}

SepAt     == <<" ","@"," ">>
SepWordAt == <<" ","a","t"," ">>
SepUpAt   == <<" ","A","t","\t">>
SepVs     == <<" ","v","s"," ">>
SepUpVs   == <<" ","V","S"," ">>
SepTight  == <<"@">>
SepWide   == <<" "," ","@"," "," ">>

SepPool == {SepAt, SepWordAt, SepUpAt, SepVs, SepUpVs, SepTight, SepWide}

\* the separator styles of the input sheet contract, in any letter case
ContractSeps == {SepAt, SepWordAt, SepUpAt, SepVs, SepUpVs}

InitParse ==
    /\ PipeIdle
    /\ fin \in {[away |-> a, sep |-> s, home |-> h, text |-> a \o s \o h] :
                    a \in NamePool, s \in SepPool, h \in NamePool}
    /\ fout = <<>>

Parse ==
    /\ script = "none" /\ fout = <<>> /\ "text" \in DOMAIN fin
    /\ fout' = parse_matchup(fin.text)
    /\ UNCHANGED <<pipe, fin>>

SpecParse == InitParse /\ [][Parse]_vars

\* C8: "Washington Football Team <sep> Dallas Cowboys" resolves to away=WAS and
\* home=DAL for each separator style "@", "at" and "vs", in any letter case.
C8_WashingtonAtDallas ==
    (/\ script = "none" /\ "text" \in DOMAIN fin /\ fout # <<>>
     /\ fin.away = WashingtonFootballTeam /\ fin.home = DallasCowboys
     /\ fin.sep \in ContractSeps)
    => fout = <<"WAS", "DAL">>

\* ---------------------------------------------------------------- percentiles

\* comparisons of the exact quotients a[1]/a[2] and b[1]/b[2] (a[2], b[2] > 0)
RatLt(a, b) == a[1] * b[2] < b[1] * a[2]
RatEq(a, b) == a[1] * b[2] = b[1] * a[2]

\* rank(method="min", pct=True): every tied entry takes the lowest rank
RankPctMin(col, s, k) ==
    LET lower == Cardinality({m \in s : RatLt(col[m], col[k])})
    IN  <<2 * (lower + 1), 2 * Cardinality(s)>>

\* Series.rank(pct=True) of the entry k of the non-null entries s of col:
\* average rank among ties, divided by the count of non-null entries
RankPct(col, s, k) ==
    LET lower == Cardinality({m \in s : RatLt(col[m], col[k])})
        ties  == Cardinality({m \in s : RatEq(col[m], col[k])})
    IN  <<2 * lower + ties + 1, 2 * Cardinality(s)>>

\* add_percentile: the percentile column of the value column col (index -> value)
add_percentile(col) ==
    LET s == {k \in DOMAIN col : col[k] # NA}
    IN  IF s = {} THEN [k \in DOMAIN col |-> NA]
        ELSE [k \in DOMAIN col |-> IF k \in s THEN RankPct(col, s, k) ELSE NA]

\* ---------------------------------------------------------------- add_percentile harness

MaxPop == 3

EppPool == {NA, <<-1, 1>>, <<0, 1>>, <<1, 2>>, <<2, 4>>}

InitRank ==
    /\ PipeIdle
    /\ \E n \in 0..MaxPop : fin \in {[pop |-> p] : p \in [1..n -> EppPool]}
    /\ fout = <<>>

\* add_percentile applied to the population
Rank ==
    /\ script = "none" /\ "pop" \in DOMAIN fin /\ fout = <<>>
    /\ fout' = [pct |-> add_percentile(fin.pop)]
    /\ UNCHANGED <<pipe, fin>>

\* one entry leaves the population (its row is no longer in the frame)
Remove ==
    /\ script = "none" /\ "pop" \in DOMAIN fin /\ fout # <<>>
    /\ \E j \in DOMAIN fin.pop :
          fin' = [pop |-> [k \in DOMAIN fin.pop \ {j} |-> fin.pop[k]],
                  prev |-> fin.pop, removed |-> j]
    /\ fout' = <<>>
    /\ UNCHANGED pipe

NextRank == Rank \/ Remove

SpecRank == InitRank /\ [][NextRank]_vars

\* C9: entries with identical EPA-per-play receive equal percentiles, and after
\* one of two tied entries is removed the other's percentile is the fractional
\* rank over the smaller population: (lower + (ties - 1 + 1) / 2) / (n - 1),
\* with lower, ties and n counted before the removal.
C9_TiesAndRemoval ==
    (script = "none" /\ "pop" \in DOMAIN fin /\ fout # <<>>) =>
        LET pop == fin.pop
            pct == fout.pct
            live == {k \in DOMAIN pop : pop[k] # NA}
        IN  /\ \A a \in live, b \in live :
                  RatEq(pop[a], pop[b]) => pct[a] # NA /\ pct[a] = pct[b]
            /\ "prev" \in DOMAIN fin =>
                  LET prev == fin.prev
                      j == fin.removed
                      was == {k \in DOMAIN prev : prev[k] # NA}
                  IN  \A a \in live :
                          (j \in was /\ RatEq(prev[a], prev[j])) =>
                              LET lower == Cardinality({m \in was : RatLt(prev[m], prev[a])})
                                  ties == Cardinality({m \in was : RatEq(prev[m], prev[a])})
                              IN  /\ pct[a] # NA
                                  /\ RatEq(pct[a], <<2 * lower + ties, 2 * (Cardinality(was) - 1)>>)
                                  /\ lower = Cardinality({m \in live : RatLt(pop[m], pop[a])})

\* a tied entry was removed and the remaining one has been ranked again
C9_Witness ==
    /\ script = "none" /\ "prev" \in DOMAIN fin /\ fout # <<>>
    /\ fin.prev[fin.removed] # NA
    /\ \E a \in DOMAIN fin.pop :
          /\ fin.pop[a] # NA /\ RatEq(fin.prev[a], fin.prev[fin.removed])
          /\ \E b \in DOMAIN fin.pop : fin.pop[b] # NA /\ RatLt(fin.pop[b], fin.pop[a])

\* ================================================================ NFL_EPA.py

HEADERS ==
    <<"Away 1H Run EPA/play", "Away 1H Pass EPA/play",
      "Home 1H Run EPA/play", "Home 1H Pass EPA/play",
      "Away Full Run EPA/play", "Away Full Pass EPA/play",
      "Home Full Run EPA/play", "Home Full Pass EPA/play">>

\* pd.to_datetime(x).date() as text, for the date texts of the model;
\* a text pandas cannot parse raises, and norm_date returns None
DateTable ==
    ("2025-10-09" :> "2025-10-09") @@ ("10/9/2025" :> "2025-10-09") @@
    ("2026-01-11" :> "2026-01-11")

\* norm_date: NoneStr or the ISO date
norm_date(x) ==
    IF x = "" THEN NoneStr
    ELSE IF x \in DOMAIN DateTable THEN DateTable[x]
    ELSE NoneStr

NoTarget == [none |-> TRUE]

\* one iteration of the targets loop: the target of sheet row r
TargetOf(r) ==
    LET matchup == strip(r.matchup)
    IN  IF matchup = <<>> THEN NoTarget
        ELSE LET ah == parse_matchup(matchup)
             IN  [away |-> ah[1], home |-> ah[2],
                  week |-> parse_week(strip(r.week)), date |-> norm_date(r.date)]

\* Python truthiness of an optional name
Falsy(x) == x = NoneStr \/ x = ""

\* the rows of the schedule that pass the filters of find_game_id, in order
Candidates(sch, t) ==
    LET keep(g) ==
            /\ g.home_team = t.home /\ g.away_team = t.away
            /\ (t.week # NA => g.week = t.week[1])
            /\ (~Falsy(t.date) => g.gameday = t.date)
    IN  SelectSeq(sch, keep)

\* find_game_id: NoneStr or a game id
find_game_id(sch, t) ==
    IF t = NoTarget THEN NoneStr
    ELSE IF Falsy(t.away) \/ Falsy(t.home) THEN NoneStr
    ELSE LET cand == Candidates(sch, t)
         IN  IF Len(cand) = 0 THEN NoneStr ELSE cand[1].game_id

SetMax(S) == CHOOSE m \in S : \A x \in S : x <= m

\* g_max_qtr.get(gid, 0)
g_max_qtr(P, gid) ==
    IF \E p \in P : p.game_id = gid
    THEN SetMax({p.qtr : p \in {q \in P : q.game_id = gid}})
    ELSE 0

\* h1_mask
first_half(P) == {p \in P : p.qtr \in {1, 2}}

\* h1_counts.get(gid, 0)
h1_counts(P, gid) == Cardinality({p \in first_half(P) : p.game_id = gid})

\* is_halftime with > in place of >=
is_halftime_strict(P, e, gid) ==
    g_max_qtr(P, gid) = 2 /\ h1_counts(P, gid) > e.MIN_1H_PLAYS

\* is_halftime
is_halftime(P, e, gid) ==
    g_max_qtr(P, gid) = 2 /\ h1_counts(P, gid) >= e.MIN_1H_PLAYS

\* is_final_or_late with the third quarter counted as late
is_final_or_late_q3(P, gid) == g_max_qtr(P, gid) >= 3

\* is_final_or_late
is_final_or_late(P, gid) == g_max_qtr(P, gid) >= 4

\* game_allowed_for_mode with the two single-mode branches exchanged
game_allowed_swapped(P, e, gid) ==
    IF e.RUN_MODE = "HALFTIME_ONLY" THEN is_final_or_late(P, gid)
    ELSE IF e.RUN_MODE = "FINAL_ONLY" THEN is_halftime(P, e, gid)
    ELSE is_halftime(P, e, gid) \/ is_final_or_late(P, gid)

\* game_allowed_for_mode
game_allowed_for_mode(P, e, gid) ==
    IF e.RUN_MODE = "HALFTIME_ONLY" THEN is_halftime(P, e, gid)
    ELSE IF e.RUN_MODE = "FINAL_ONLY" THEN is_final_or_late(P, gid)
    ELSE is_halftime(P, e, gid) \/ is_final_or_late(P, gid)

\* Series.sum() of the epa column of the plays S: NaN is skipped
RECURSIVE EpaSum(_)
EpaSum(S) ==
    IF S = {} THEN 0
    ELSE LET p == CHOOSE q \in S : TRUE
         IN  (IF p.epa = NA THEN 0 ELSE p.epa[1]) + EpaSum(S \ {p})

\* agg_epp: (game_id, posteam) -> epa_per_play, one entry per group of df
agg_epp(df) ==
    [key \in {<<p.game_id, p.posteam>> : p \in df} |->
        LET grp == {p \in df : p.game_id = key[1] /\ p.posteam = key[2]}
            plays == Cardinality(grp)
        IN  IF plays = 0 THEN NA ELSE <<EpaSum(grp), plays>>]

\* the frame a statistic is aggregated over: segment "h1" or "full",
\* play type "run" (rush == 1) or "pass" (pass == 1)
SplitFrame(P, seg, typ) ==
    LET base == IF seg = "h1" THEN first_half(P) ELSE P
    IN  IF typ = "run" THEN {p \in base : p.rush = 1}
        ELSE {p \in base : p.pass = 1}

\* round() of Python: n/d to the nearest integer, halves to the even one
RoundHalfEven(n, d) ==
    LET q == n \div d
        r == n % d
    IN  IF 2 * r < d THEN q
        ELSE IF 2 * r > d THEN q + 1
        ELSE IF q % 2 = 0 THEN q ELSE q + 1

\* fmt_val_with_pct
fmt_val_with_pct(val, pct) ==
    IF val = NA THEN <<>>
    ELSE IF pct # NA
         THEN <<RoundHalfEven(1000 * val[1], val[2]), RoundHalfEven(100 * pct[1], pct[2])>>
         ELSE <<RoundHalfEven(1000 * val[1], val[2])>>

\* the order of the 8 columns: team side, segment, play type
Columns ==
    <<<<"away", "h1", "run">>, <<"away", "h1", "pass">>,
      <<"home", "h1", "run">>, <<"home", "h1", "pass">>,
      <<"away", "full", "run">>, <<"away", "full", "pass">>,
      <<"home", "full", "run">>, <<"home", "full", "pass">>>>

Blank8 == [c \in 1..8 |-> <<>>]
None8 == [c \in 1..8 |-> NA]

\* grab of the value and of the percentile of one column for game gid
ColStat(P, gid, t, c) ==
    LET team == IF Columns[c][1] = "away" THEN t.away ELSE t.home
        epp == agg_epp(SplitFrame(P, Columns[c][2], Columns[c][3]))
        pct == add_percentile(epp)
        key == <<gid, team>>
    IN  IF key \in DOMAIN epp THEN [val |-> epp[key], pct |-> pct[key]]
        ELSE [val |-> NA, pct |-> NA]

\* one iteration of the build-output-rows loop
RowOf(sch, P, e, t) ==
    IF t = NoTarget
    THEN [gid |-> NoneStr, path |-> "none", rec |-> Blank8, pcts |-> None8]
    ELSE LET gid == find_game_id(sch, t)
         IN  IF Falsy(gid)
             THEN [gid |-> gid, path |-> "nogame", rec |-> Blank8, pcts |-> None8]
             ELSE IF ~game_allowed_for_mode(P, e, gid)
             THEN [gid |-> gid, path |-> "gated", rec |-> Blank8, pcts |-> None8]
             ELSE [gid |-> gid, path |-> "reported",
                   rec |-> [c \in 1..8 |->
                              fmt_val_with_pct(ColStat(P, gid, t, c).val,
                                               ColStat(P, gid, t, c).pct)],
                   pcts |-> [c \in 1..8 |-> ColStat(P, gid, t, c).pct]]

\* ---------------------------------------------------------------- the inputs

MaxRows == 2
MaxPlays == 3

G1 == "2025_05_PHI_NYG"
G2 == "2025_19_PHI_NYG"
G3 == "2025_08_NYG_PHI"

\* schedule rows as nflreadpy returns them, ordered by game
GamePool ==
    <<[game_id |-> G1, week |-> 5, home_team |-> "NYG", away_team |-> "PHI",
       gameday |-> "2025-10-09"],
      [game_id |-> G3, week |-> 8, home_team |-> "PHI", away_team |-> "NYG",
       gameday |-> "2025-10-26"],
      [game_id |-> G2, week |-> 19, home_team |-> "NYG", away_team |-> "PHI",
       gameday |-> "2026-01-11"]>>

\* the schedules of the model: the first n games of the season
SchedulePool == {SubSeq(GamePool, 1, n) : n \in 0..Len(GamePool)}

Philly == <<"P","h","i","l","l","y">>

\* sheet rows: columns A (date), B (week) and D (matchup)
RowPool ==
    {[date |-> "", week |-> <<>>, matchup |-> <<>>],
     [date |-> "10/9/2025", week |-> <<"W","k"," ","5">>,
      matchup |-> Eagles \o SepAt \o Giants],
     [date |-> "", week |-> <<>>, matchup |-> Eagles \o SepWordAt \o Giants],
     [date |-> "TBD", week |-> <<"5">>, matchup |-> Philly \o SepAt \o Giants]}

HeaderRow == [date |-> "Date", week |-> <<"W","e","e","k">>,
              matchup |-> <<"M","a","t","c","h","u","p">>]

\* sequences over S of length at most n
SeqsUpTo(S, n) == UNION {[1..m -> S] : m \in 0..n}

\* play-by-play rows as nflreadpy returns them; every row carries a play_id,
\* so the count of play_id over a group is the number of its rows
PlayPool ==
    {[play_id |-> 1, game_id |-> G1, qtr |-> 1, posteam |-> "PHI",
      play_type |-> "run", rush |-> 1, pass |-> 0, epa |-> <<2>>],
     [play_id |-> 2, game_id |-> G1, qtr |-> 2, posteam |-> "PHI",
      play_type |-> "pass", rush |-> 0, pass |-> 1, epa |-> <<-1>>],
     [play_id |-> 3, game_id |-> G1, qtr |-> 2, posteam |-> "NYG",
      play_type |-> "run", rush |-> 1, pass |-> 0, epa |-> <<2>>],
     [play_id |-> 4, game_id |-> G1, qtr |-> 2, posteam |-> "NYG",
      play_type |-> "punt", rush |-> 0, pass |-> 0, epa |-> <<0>>],
     [play_id |-> 5, game_id |-> G1, qtr |-> 3, posteam |-> "PHI",
      play_type |-> "run", rush |-> 1, pass |-> 0, epa |-> <<-1>>],
     [play_id |-> 6, game_id |-> G1, qtr |-> 4, posteam |-> "NYG",
      play_type |-> "pass", rush |-> 0, pass |-> 1, epa |-> NA],
     [play_id |-> 7, game_id |-> G3, qtr |-> 2, posteam |-> "NYG",
      play_type |-> "run", rush |-> 1, pass |-> 0, epa |-> <<1>>],
     [play_id |-> 8, game_id |-> G1, qtr |-> 2, posteam |-> "PHI",
      play_type |-> NoneStr, rush |-> 0, pass |-> 0, epa |-> NA]}

PbpPool == {P \in SUBSET PlayPool : Cardinality(P) <= MaxPlays}

RunModes == {"HALFTIME_ONLY", "HALFTIME_OR_FINAL", "FINAL_ONLY"}
MinPlaysPool == {2, 3}
SheetIds == {"unset", "", "sheet"}

Append2(q, a, b) == Append(Append(q, a), b)

\* ---------------------------------------------------------------- the script

\* os.getenv("SHEET_ID") in place of os.environ["SHEET_ID"]: no KeyError
EnvLookupNever(e) == FALSE

\* line 17, os.environ["SHEET_ID"]: KeyError when the variable is not set
EnvLookupFails(e) == e.SHEET_ID = "unset"

A_Config ==
    /\ script = "NFL_EPA" /\ pc = "start"
    /\ pc' = IF EnvLookupFails(env) THEN "failed" ELSE "auth"
    /\ UNCHANGED <<script, env, effects, values, targets, schedule, pbp, gids,
                   records, pct_matrix, frames, calls, epa_stats, sheet_out, fin, fout>>

\* get_gspread_client: GCP_SA_JSON, else the credentials file, else RuntimeError
A_Auth ==
    /\ script = "NFL_EPA" /\ pc = "auth"
    /\ \E found \in BOOLEAN :
          IF found
          THEN /\ effects' = Append2(effects, "load_credentials", "authorize")
               /\ pc' = "open"
          ELSE /\ effects' = Append(effects, "load_credentials")
               /\ pc' = "failed"
    /\ UNCHANGED <<script, env, values, targets, schedule, pbp, gids,
                   records, pct_matrix, frames, calls, epa_stats, sheet_out, fin, fout>>

\* gc.open_by_key(SHEET_ID).worksheet(SHEET_TAB_NFL); no sheet has the empty key
A_Open ==
    /\ script = "NFL_EPA" /\ pc = "open"
    /\ effects' = Append(effects, "open_sheet")
    /\ pc' = IF env.SHEET_ID = "" THEN "failed" ELSE "read"
    /\ UNCHANGED <<script, env, values, targets, schedule, pbp, gids,
                   records, pct_matrix, frames, calls, epa_stats, sheet_out, fin, fout>>

\* ws.get_all_values(), SystemExit on an empty sheet, then the targets loop
A_Read ==
    /\ script = "NFL_EPA" /\ pc = "read"
    /\ effects' = Append(effects, "read_sheet")
    /\ \E v \in {<<>>} \cup {<<HeaderRow>> \o rows : rows \in SeqsUpTo(RowPool, MaxRows)} :
          /\ values' = v
          /\ IF v = <<>>
             THEN pc' = "exit" /\ targets' = targets
             ELSE /\ pc' = "schedule"
                  /\ targets' = [k \in 1..(Len(v) - 1) |-> TargetOf(v[k + 1])]
    /\ UNCHANGED <<script, env, schedule, pbp, gids,
                   records, pct_matrix, frames, calls, epa_stats, sheet_out, fin, fout>>

\* nr.load_schedules([season_current])
A_Schedule ==
    /\ script = "NFL_EPA" /\ pc = "schedule"
    /\ effects' = Append(effects, "load_schedules")
    /\ schedule' \in SchedulePool
    /\ pc' = "pbp"
    /\ UNCHANGED <<script, env, values, targets, pbp, gids,
                   records, pct_matrix, frames, calls, epa_stats, sheet_out, fin, fout>>

\* nr.load_pbp([season_current]), keeping the rows whose play_type is not null
A_Pbp ==
    /\ script = "NFL_EPA" /\ pc = "pbp"
    /\ effects' = Append(effects, "load_pbp")
    /\ \E raw \in PbpPool : pbp' = {p \in raw : p.play_type # NoneStr}
    /\ pc' = "rows"
    /\ UNCHANGED <<script, env, values, targets, schedule, gids,
                   records, pct_matrix, frames, calls, epa_stats, sheet_out, fin, fout>>

\* the build-output-rows loop
A_Rows ==
    /\ script = "NFL_EPA" /\ pc = "rows"
    /\ LET row == [k \in DOMAIN targets |-> RowOf(schedule, pbp, env, targets[k])]
       IN  /\ gids' = [k \in DOMAIN targets |-> [gid |-> row[k].gid, path |-> row[k].path]]
           /\ records' = [k \in DOMAIN targets |-> row[k].rec]
           /\ pct_matrix' = [k \in DOMAIN targets |-> row[k].pcts]
    /\ pc' = "write"
    /\ UNCHANGED <<script, env, effects, values, targets, schedule, pbp,
                   frames, calls, epa_stats, sheet_out, fin, fout>>

\* ws.update of the headers, then of the records
A_Write ==
    /\ script = "NFL_EPA" /\ pc = "write"
    /\ effects' = Append2(effects, "write_sheet", "write_sheet")
    /\ sheet_out' = <<HEADERS>> \o records
    /\ pc' = "done"
    /\ UNCHANGED <<script, env, values, targets, schedule, pbp, gids,
                   records, pct_matrix, frames, calls, epa_stats, fin, fout>>

\* ================================================================ NFL-epa.py

MaxSeasons == 2

SeasonPool == {2023, 2024, 2025}

\* the season lists of the model: distinct seasons, in any order
SeasonLists ==
    {q \in SeqsUpTo(SeasonPool, MaxSeasons) :
        \A a \in DOMAIN q, b \in DOMAIN q : q[a] = q[b] => a = b}

\* what a play source holds for a season: it raises, or it has these plays
\* (team, quarter, epa; a play may carry no team)
SourcePlaysPool ==
    {<<>>,
     <<[team |-> "PHI", qtr |-> 1, epa |-> 2], [team |-> "PHI", qtr |-> 3, epa |-> -1],
       [team |-> "NYG", qtr |-> 2, epa |-> 1]>>,
     <<[team |-> "NYG", qtr |-> 3, epa |-> 2], [team |-> NoneStr, qtr |-> 1, epa |-> 1]>>,
     <<[team |-> "DAL", qtr |-> 5, epa |-> 1]>>,
     <<[team |-> NoneStr, qtr |-> 2, epa |-> 0]>>}

SourceOutcomes ==
    {[raises |-> TRUE, plays |-> <<>>]} \cup
    {[raises |-> FALSE, plays |-> f] : f \in SourcePlaysPool}

NoneDf == [none |-> TRUE, rows |-> <<>>]

\* get_espn_pbp: None when the fetch raises or finds no plays
get_espn_pbp(o) ==
    IF o.raises THEN NoneDf
    ELSE IF o.plays = <<>> THEN NoneDf
    ELSE [none |-> FALSE, rows |-> o.plays]

\* get_nfl_data_py: None when the import raises; rows without posteam are dropped
get_nfl_data_py(o) ==
    IF o.raises THEN NoneDf
    ELSE [none |-> FALSE, rows |-> SelectSeq(o.plays, LAMBDA p : p.team # NoneStr)]

\* df is None or df.empty
NoData(df) == df.none \/ df.rows = <<>>

\* the second source consulted whatever the first returned
FallbackAlways(df) == TRUE

\* line 95: whether the second source is consulted after the first returned df
NeedFallback(df) == NoData(df)

\* must_env: "if not v" holds for an unset and for an empty variable
MustEnvFails(e) == e.SHEET_ID \in {"unset", ""}

B_Config ==
    /\ script = "NFL-epa" /\ pc = "start"
    /\ effects' = Append(effects, "load_dotenv")
    /\ pc' = IF MustEnvFails(env) THEN "failed" ELSE "auth"
    /\ UNCHANGED <<script, env, values, targets, schedule, pbp, gids,
                   records, pct_matrix, frames, calls, epa_stats, sheet_out, fin, fout>>

\* ServiceAccountCredentials.from_json_keyfile_name("credentials.json"), authorize
B_Auth ==
    /\ script = "NFL-epa" /\ pc = "auth"
    /\ \E found \in BOOLEAN :
          IF found
          THEN /\ effects' = Append2(effects, "load_credentials", "authorize")
               /\ pc' = "open"
          ELSE /\ effects' = Append(effects, "load_credentials")
               /\ pc' = "failed"
    /\ UNCHANGED <<script, env, values, targets, schedule, pbp, gids,
                   records, pct_matrix, frames, calls, epa_stats, sheet_out, fin, fout>>

B_Open ==
    /\ script = "NFL-epa" /\ pc = "open"
    /\ effects' = Append(effects, "open_sheet")
    /\ pc' = "fetch"
    /\ UNCHANGED <<script, env, values, targets, schedule, pbp, gids,
                   records, pct_matrix, frames, calls, epa_stats, sheet_out, fin, fout>>

\* one iteration of the retrieval loop, for season SEASONS_LIST[Len(calls) + 1]
B_Season ==
    /\ script = "NFL-epa" /\ pc = "fetch" /\ Len(calls) < Len(env.SEASONS)
    /\ \E o1 \in SourceOutcomes, o2 \in SourceOutcomes :
          LET y == env.SEASONS[Len(calls) + 1]
              df1 == get_espn_pbp(o1)
              c1 == [season |-> y, source |-> "ESPN", raised |-> o1.raises, df |-> df1]
              df2 == get_nfl_data_py(o2)
              c2 == [season |-> y, source |-> "nfl_data_py", raised |-> o2.raises, df |-> df2]
              df == IF NeedFallback(df1) THEN df2 ELSE df1
          IN  /\ calls' = Append(calls, IF NeedFallback(df1) THEN <<c1, c2>> ELSE <<c1>>)
              /\ effects' = IF NeedFallback(df1)
                            THEN Append2(effects, "fetch_plays", "fetch_plays")
                            ELSE Append(effects, "fetch_plays")
              /\ frames' = IF ~NoData(df) THEN Append(frames, df.rows) ELSE frames
    /\ UNCHANGED <<script, pc, env, values, targets, schedule, pbp, gids,
                   records, pct_matrix, epa_stats, sheet_out, fin, fout>>

qtr_to_half(q) ==
    IF q \in {1, 2} THEN "1H" ELSE IF q \in {3, 4} THEN "2H" ELSE "Other"

\* pd.concat(frames, ignore_index=True)
RECURSIVE concat(_)
concat(fs) == IF fs = <<>> THEN <<>> ELSE Head(fs) \o concat(Tail(fs))

RECURSIVE SeqEpaSum(_)
SeqEpaSum(ps) == IF ps = <<>> THEN 0 ELSE Head(ps).epa + SeqEpaSum(Tail(ps))

\* groupby(["team","half"])["epa"].mean() for one group: NA when the group is absent
HalfMean(P, team, half) ==
    LET grp == SelectSeq(P, LAMBDA p : p.team = team /\ qtr_to_half(p.qtr) = half)
    IN  IF grp = <<>> THEN NA ELSE <<SeqEpaSum(grp), Len(grp)>>

\* .fillna(0.0), and the column added as 0.0 when no team has it
FillZero(v) == IF v = NA THEN <<0, 1>> ELSE v

\* team abbreviations in the order sort_values("Team") gives them
TeamOrder == <<"DAL", "NYG", "PHI">>

\* epa_stats: one row per team that has a play, sorted by Team
EpaStatsOf(P) ==
    LET teams == {P[k].team : k \in DOMAIN P} \ {NoneStr}
        sorted == SelectSeq(TeamOrder, LAMBDA t : t \in teams)
    IN  [k \in DOMAIN sorted |->
            [Team |-> sorted[k],
             EPA_1H |-> FillZero(HalfMean(P, sorted[k], "1H")),
             EPA_2H |-> FillZero(HalfMean(P, sorted[k], "2H"))]]

\* after the loop: RuntimeError when no frame was gathered, else pbp and epa_stats
B_Stats ==
    /\ script = "NFL-epa" /\ pc = "fetch" /\ Len(calls) = Len(env.SEASONS)
    /\ IF frames = <<>>
       THEN pc' = "failed" /\ UNCHANGED <<pbp, epa_stats>>
       ELSE /\ pbp' = concat(frames)
            /\ epa_stats' = EpaStatsOf(concat(frames))
            /\ pc' = "write"
    /\ UNCHANGED <<script, env, effects, values, targets, schedule, gids,
                   records, pct_matrix, frames, calls, sheet_out, fin, fout>>

\* ws.update of the header and the rows of epa_stats
B_Write ==
    /\ script = "NFL-epa" /\ pc = "write"
    /\ effects' = Append(effects, "write_sheet")
    /\ sheet_out' = <<<<"Team", "EPA_1H", "EPA_2H">>>> \o epa_stats
    /\ pc' = "done"
    /\ UNCHANGED <<script, env, values, targets, schedule, pbp, gids,
                   records, pct_matrix, frames, calls, epa_stats, fin, fout>>

\* ================================================================ the program

Init ==
    /\ script \in {"NFL_EPA", "NFL-epa"}
    /\ pc = "start"
    /\ env \in IF script = "NFL_EPA"
               THEN [SHEET_ID : SheetIds, RUN_MODE : RunModes,
                     MIN_1H_PLAYS : MinPlaysPool, SEASONS : {<<2025>>}]
               ELSE [SHEET_ID : SheetIds, RUN_MODE : {"HALFTIME_OR_FINAL"},
                     MIN_1H_PLAYS : {60}, SEASONS : SeasonLists]
    /\ effects = <<>> /\ values = <<>> /\ targets = <<>> /\ schedule = <<>>
    /\ pbp = {} /\ gids = <<>> /\ records = <<>> /\ pct_matrix = <<>>
    /\ frames = <<>> /\ calls = <<>> /\ epa_stats = <<>> /\ sheet_out = <<>>
    /\ fin = <<>> /\ fout = <<>>

Next ==
    \/ A_Config \/ A_Auth \/ A_Open \/ A_Read \/ A_Schedule \/ A_Pbp
    \/ A_Rows \/ A_Write
    \/ B_Config \/ B_Auth \/ B_Open \/ B_Season \/ B_Stats \/ B_Write

Spec == Init /\ [][Next]_vars

\* ================================================================ the claims

InA(pcs) == script = "NFL_EPA" /\ pc \in pcs
InB(pcs) == script = "NFL-epa" /\ pc \in pcs

\* C1: when more than one schedule entry remains after the filters on home team,
\* away team, week and date, find_game_id gives no game id.
C1_AmbiguousIsUnresolved ==
    InA({"write", "done"}) =>
        \A k \in DOMAIN targets :
            LET t == targets[k]
            IN  (/\ t # NoTarget
                 /\ Cardinality({m \in DOMAIN schedule :
                        /\ schedule[m].home_team = t.home
                        /\ schedule[m].away_team = t.away
                        /\ (t.week # NA => schedule[m].week = t.week[1])
                        /\ (t.date # NoneStr => schedule[m].gameday = t.date)}) > 1)
                => gids[k].gid = NoneStr

\* the quarters and first-half plays the loaded play-by-play holds for game g
MaxQtrSeen(g) ==
    IF \E p \in pbp : p.game_id = g
    THEN CHOOSE q \in 1..5 : (\E p \in pbp : p.game_id = g /\ p.qtr = q)
                             /\ \A p \in pbp : p.game_id = g => p.qtr <= q
    ELSE 0
FirstHalfPlays(g) == Cardinality({p \in pbp : p.game_id = g /\ p.qtr \in {1, 2}})
AtHalftime(g) == MaxQtrSeen(g) = 2 /\ FirstHalfPlays(g) >= env.MIN_1H_PLAYS
FinalOrLate(g) == MaxQtrSeen(g) >= 4
SatisfiesMode(g) ==
    \/ env.RUN_MODE = "HALFTIME_ONLY" /\ AtHalftime(g)
    \/ env.RUN_MODE = "FINAL_ONLY" /\ FinalOrLate(g)
    \/ env.RUN_MODE = "HALFTIME_OR_FINAL" /\ (AtHalftime(g) \/ FinalOrLate(g))

BlankRow(k) == records[k] = Blank8 /\ pct_matrix[k] = None8

\* C2: a matchup whose resolved game does not satisfy the active reporting mode
\* gets a row of 8 empty cells and 8 null percentiles (also in what is written);
\* a game at max quarter 2 with at least MIN_1H_PLAYS first-half plays is
\* reported under HALFTIME_ONLY and blank under FINAL_ONLY.
C2_ModeGatesRow ==
    InA({"write", "done"}) =>
        \A k \in DOMAIN gids :
            LET g == gids[k].gid
            IN  g \notin {NoneStr, ""} =>
                  /\ ~SatisfiesMode(g) =>
                        /\ BlankRow(k) /\ gids[k].path = "gated"
                        /\ pc = "done" => sheet_out[k + 1] = Blank8
                  /\ AtHalftime(g) =>
                        /\ env.RUN_MODE = "HALFTIME_ONLY" => gids[k].path = "reported"
                        /\ env.RUN_MODE = "FINAL_ONLY" => BlankRow(k)

\* a halftime-ready game was written as a blank row under FINAL_ONLY
C2_Witness ==
    /\ InA({"done"}) /\ env.RUN_MODE = "FINAL_ONLY"
    /\ \E k \in DOMAIN gids :
          /\ gids[k].gid \notin {NoneStr, ""} /\ AtHalftime(gids[k].gid)
          /\ sheet_out[k + 1] = Blank8

GameIds == {GamePool[m].game_id : m \in DOMAIN GamePool}

\* C3: a game whose max observed quarter is 2 is halftime-reportable exactly when
\* its count of plays in quarters 1 and 2 is at least MIN_1H_PLAYS; under
\* HALFTIME_ONLY its rows are reported exactly then.
C3_HalftimeThreshold ==
    InA({"rows", "write", "done"}) =>
        \A g \in GameIds :
            MaxQtrSeen(g) = 2 =>
                /\ is_halftime(pbp, env, g) <=> FirstHalfPlays(g) >= env.MIN_1H_PLAYS
                /\ (pc # "rows" /\ env.RUN_MODE = "HALFTIME_ONLY") =>
                      \A k \in DOMAIN gids :
                          gids[k].gid = g =>
                              (gids[k].path = "reported"
                                   <=> FirstHalfPlays(g) >= env.MIN_1H_PLAYS)

\* one game sits exactly at the threshold and is reported, another is one play
\* short of it and is not
C3_Witness ==
    /\ InA({"done"}) /\ env.RUN_MODE = "HALFTIME_ONLY"
    /\ \E g \in GameIds, h \in GameIds :
          /\ MaxQtrSeen(g) = 2 /\ FirstHalfPlays(g) = env.MIN_1H_PLAYS
          /\ is_halftime(pbp, env, g)
          /\ \E k \in DOMAIN gids : gids[k].gid = g /\ gids[k].path = "reported"
          /\ MaxQtrSeen(h) = 2 /\ FirstHalfPlays(h) = env.MIN_1H_PLAYS - 1
          /\ ~is_halftime(pbp, env, h)

\* every source consulted for the k-th configured season failed or was empty
SeasonFailed(k) == \A m \in DOMAIN calls[k] : calls[k][m].df.none \/ calls[k][m].df.rows = <<>>

\* C4: if every play source fails or returns empty for a configured season, the
\* run aborts and never writes to the sheet, also when another season has plays.
C4_FailedSeasonNeverWrites ==
    (script = "NFL-epa" /\ \E k \in DOMAIN calls : SeasonFailed(k)) =>
        /\ "write_sheet" \notin Range(effects)
        /\ pc # "done"

\* C5: per season ESPN is consulted first and nfl_data_py second, the second
\* exactly when the first raised or returned no plays; a source that raises
\* returns nothing and the run goes on: it aborts only after the loop, with no frame.
C5_FallbackOrder ==
    script = "NFL-epa" =>
        /\ \A k \in DOMAIN calls :
              LET cs == calls[k]
              IN  /\ Len(cs) \in {1, 2}
                  /\ cs[1].source = "ESPN"
                  /\ \A m \in DOMAIN cs : cs[m].season = env.SEASONS[k]
                  /\ \A m \in DOMAIN cs : cs[m].raised => cs[m].df.none
                  /\ Len(cs) = 2 => cs[2].source = "nfl_data_py"
                  /\ Len(cs) = 2 <=> (cs[1].df.none \/ cs[1].df.rows = <<>>)
        /\ (pc = "failed" /\ calls # <<>>) =>
              /\ Len(calls) = Len(env.SEASONS)
              /\ \A k \in DOMAIN calls : SeasonFailed(k)

\* ESPN raised for a season, nfl_data_py supplied its plays, and the run finished
C5_Witness ==
    /\ InB({"done"})
    /\ \E k \in DOMAIN calls :
          /\ Len(calls[k]) = 2 /\ calls[k][1].raised
          /\ calls[k][2].df.rows # <<>>
    /\ \E k \in DOMAIN calls : Len(calls[k]) = 1

\* the sheet row k + 1 is blank in the sense of the claim: no matchup text, a team
\* name that does not resolve, no schedule entry or several, or a game the mode gates
MustBeBlank(k) ==
    LET r == values[k + 1]
        t == targets[k]
    IN  \/ strip(r.matchup) = <<>>
        \/ t.away \in {NoneStr, ""} \/ t.home \in {NoneStr, ""}
        \/ Len(Candidates(schedule, t)) # 1
        \/ ~SatisfiesMode(Candidates(schedule, t)[1].game_id)

\* C6: one 8-cell row per sheet data row, in order; a row with an empty matchup, an
\* unresolvable team, an absent or ambiguous match or a not-yet-reportable game is
\* blank, and the rows after it are still processed and written.
C6_RowsPositionalNonFatal ==
    InA({"write", "done"}) =>
        /\ Len(records) = Len(values) - 1
        /\ Len(pct_matrix) = Len(values) - 1
        /\ \A k \in DOMAIN records :
              /\ DOMAIN records[k] = 1..8
              /\ MustBeBlank(k) => BlankRow(k)
              /\ ~MustBeBlank(k) =>
                    records[k] = RowOf(schedule, pbp, env, TargetOf(values[k + 1])).rec
        /\ pc = "done" =>
              /\ Len(sheet_out) = Len(values)
              /\ \A k \in DOMAIN records : sheet_out[k + 1] = records[k]

\* the plays of game g by team, in segment seg ("h1", "full") of type typ
Qualifying(g, team, seg, typ) ==
    {p \in pbp : /\ p.game_id = g /\ p.posteam = team
                 /\ (seg = "h1" => p.qtr \in {1, 2})
                 /\ (typ = "run" => p.rush = 1) /\ (typ = "pass" => p.pass = 1)}

\* C7 for the report rows: a cell is non-empty only for a group with a play
C7_ReportCells ==
    InA({"write", "done"}) =>
        \A k \in DOMAIN records : \A c \in 1..8 :
            LET t == targets[k]
                n == Cardinality(Qualifying(gids[k].gid,
                         IF Columns[c][1] = "away" THEN t.away ELSE t.home,
                         Columns[c][2], Columns[c][3]))
            IN  /\ records[k][c] # <<>> => n >= 1
                /\ (gids[k].path = "reported" /\ n >= 1) => records[k][c] # <<>>
                /\ records[k][c] = <<>> => pct_matrix[k][c] = NA

\* C7 for the per-half table as written: a statistic is a number only for a
\* group with a play
C7_HalfTable ==
    InB({"done"}) =>
        \A k \in DOMAIN epa_stats :
            LET row == sheet_out[k + 1]
                n1 == Cardinality({m \in DOMAIN pbp : pbp[m].team = row.Team
                                                      /\ pbp[m].qtr \in {1, 2}})
                n2 == Cardinality({m \in DOMAIN pbp : pbp[m].team = row.Team
                                                      /\ pbp[m].qtr \in {3, 4}})
            IN  /\ row.EPA_1H # NA => n1 >= 1
                /\ row.EPA_2H # NA => n2 >= 1

\* C7: a group with zero qualifying plays yields null, never 0, in every statistic
\* the program computes and writes; a non-null statistic has at least one play.
C7_ZeroPlaysIsNull == C7_ReportCells /\ C7_HalfTable

\* the operations the claim lists: credential loading, sheet connection,
\* schedule or play-data fetch, sheet write
GuardedEffects ==
    {"load_credentials", "authorize", "open_sheet", "read_sheet",
     "load_schedules", "load_pbp", "fetch_plays", "write_sheet"}

MaxSeen == 4
MaxRuns == 3

\* the sheet row followed across the runs, and the schedule it resolves in
TrackedRow == [date |-> "10/9/2025", week |-> <<"W","k"," ","5">>,
               matchup |-> Eagles \o SepAt \o Giants]
TrackedSchedule == SubSeq(GamePool, 1, 1)

\* what one run makes of the tracked row when nr.load_pbp returns raw
RunOn(raw, e) ==
    LET P == {p \in raw : p.play_type # NoneStr}
        row == RowOf(TrackedSchedule, P, e, TargetOf(TrackedRow))
    IN  [raw |-> raw, gid |-> row.gid, path |-> row.path, rec |-> row.rec,
         pcts |-> row.pcts]

InitRuns ==
    /\ PipeIdle
    /\ fin \in [seen : {{}}, RUN_MODE : RunModes, MIN_1H_PLAYS : MinPlaysPool]
    /\ fout = <<>>

\* the source gains a play, no earlier in its game than the plays it already has
Feed ==
    /\ script = "none" /\ "seen" \in DOMAIN fin
    /\ Cardinality(fin.seen) < MaxSeen
    /\ \E p \in PlayPool \ fin.seen :
          /\ \A q \in fin.seen : q.game_id = p.game_id => q.qtr <= p.qtr
          /\ fin' = [fin EXCEPT !.seen = fin.seen \cup {p}]
    /\ UNCHANGED <<pipe, fout>>

\* one more run of the script, on the plays the source holds now
Rerun ==
    /\ script = "none" /\ "seen" \in DOMAIN fin
    /\ Len(fout) < MaxRuns
    /\ IF fout = <<>> THEN TRUE ELSE fout[Len(fout)].raw # fin.seen
    /\ fout' = Append(fout, RunOn(fin.seen, fin))
    /\ UNCHANGED <<pipe, fin>>

NextRuns == Feed \/ Rerun

SpecRuns == InitRuns /\ [][NextRuns]_vars

\* the plays with a play type that run r loaded for game g, their highest
\* quarter and the number of them in quarters 1 and 2
RunPlays(r, g) == {p \in r.raw : p.play_type # NoneStr /\ p.game_id = g}
RunMaxQtr(r, g) ==
    IF RunPlays(r, g) = {} THEN 0
    ELSE CHOOSE q \in 1..5 : (\E p \in RunPlays(r, g) : p.qtr = q)
                             /\ \A p \in RunPlays(r, g) : p.qtr <= q
RunFirstHalf(r, g) == Cardinality({p \in RunPlays(r, g) : p.qtr \in {1, 2}})

\* C11: a game whose max observed quarter is 3 is neither halftime nor
\* final_or_late and is blank under every reporting mode; under HALFTIME_OR_FINAL
\* a game with at least MIN_1H_PLAYS first-half plays is reported at max quarter 2
\* and again from max quarter 4 on.
C11_ThirdQuarterGap ==
    (script = "none" /\ "seen" \in DOMAIN fin) =>
        \A i \in DOMAIN fout :
            LET r == fout[i]
                P == {p \in r.raw : p.play_type # NoneStr}
                q == RunMaxQtr(r, G1)
                ready == RunFirstHalf(r, G1) >= fin.MIN_1H_PLAYS
            IN  /\ r.gid = G1
                /\ q = 3 =>
                      /\ ~is_halftime(P, fin, G1) /\ ~is_final_or_late(P, G1)
                      /\ \A m \in RunModes :
                            ~game_allowed_for_mode(P, [fin EXCEPT !.RUN_MODE = m], G1)
                      /\ r.path = "gated" /\ r.rec = Blank8 /\ r.pcts = None8
                /\ (fin.RUN_MODE = "HALFTIME_OR_FINAL" /\ ready /\ q = 2) =>
                      r.path = "reported"
                /\ (fin.RUN_MODE = "HALFTIME_OR_FINAL" /\ q >= 4) => r.path = "reported"

\* three successive runs under HALFTIME_OR_FINAL saw the game at max quarter 2,
\* 3 and 4: reported, blank, reported
C11_Witness ==
    /\ script = "none" /\ "seen" \in DOMAIN fin /\ Len(fout) = 3
    /\ fin.RUN_MODE = "HALFTIME_OR_FINAL"
    /\ RunFirstHalf(fout[1], G1) >= fin.MIN_1H_PLAYS
    /\ RunMaxQtr(fout[1], G1) = 2 /\ fout[1].path = "reported" /\ fout[1].rec # Blank8
    /\ RunMaxQtr(fout[2], G1) = 3 /\ fout[2].path = "gated" /\ fout[2].rec = Blank8
    /\ RunMaxQtr(fout[3], G1) = 4 /\ fout[3].path = "reported" /\ fout[3].rec # Blank8

====
